---- MODULE Spec2Model ----
(***************************************************************************)
(* Model of hyperion/grid/voropp_wrap.cc: the post-processing pipeline     *)
(* that hyperion_voropp_wrap builds on top of the voro++ cell engine.      *)
(*                                                                         *)
(* The wrapper is one synchronous call.  Its components are modelled as    *)
(* separate specifications over one set of variables, each starting in the *)
(* state in which the component is entered:                                *)
(*   SpecSym   neighbour symmetrization and dense packing (lines 341-362)  *)
(*   SpecCall  control flow of the call: walls, exceptions, output         *)
(*             assignment (lines 76-116, 175-397)                          *)
(*   SpecDecomp the cell loop's tetra decomposition over every face list   *)
(*             within the bounds, no sample asked for (lines 246-319)      *)
(*   SpecTetra the cell loop's decomposition and sampling over a family of *)
(*             cells (lines 246-336)                                       *)
(*   SpecFold  sample_point_in_tetra's folding of three draws (138-165)    *)
(* Vectors are sequences (1-based); a C++ index n is the sequence index    *)
(* n + 1.  Arrays indexed by site are functions over 0 .. nsites-1.        *)
(* Memory allocation is assumed to succeed.                                *)
(***************************************************************************)
EXTENDS Integers, Sequences, FiniteSets, TLC

VARIABLES
    pc,             \* position in the code of the component being run
    nsites,         \* argument nsites
    idx,            \* int idx (line 230), the site loop variable
    j,              \* loop index j (line 285 / line 342)
    \* ---- neighbour lists and their dense form
    n_list,         \* std::vector<std::vector<int> > n_list
    raw,            \* n_list as the cell engine left it (history variable)
    probed,         \* the values used so far to index n_list in lines 344-345
    max_nn,         \* *max_nn
    neighs,         \* the flat array neighs (nsites * max_nn ints)
    \* ---- the call
    wall_str, n_wall_args, wall_args_arr,   \* wall arguments
    with_vertices, with_sampling,           \* flags
    wall_ptr,       \* static std::auto_ptr<wall> wall_ptr: <<>> when null, else <<the wall>>
    con_walls,      \* walls added to the container of this call
    exc,            \* exception in flight / caught
    retval,         \* value returned by the call
    assigned,       \* output pointers the call has assigned
    ncalls,         \* calls made so far
    \* ---- the cell loop: decomposition and sampling
    n_samples,      \* argument n_samples
    visited,        \* sites the loop c_loop_all vl has been at
    tmp_vertices,   \* *tmp_vertices: coordinate triplets of the cell's vertices
    f_vert,         \* std::vector<int> f_vert
    t_vert,         \* std::vector<int> t_vert
    c_vol,          \* std::vector<double> c_vol, in units of 1/6
    vol,            \* double vol, in units of 1/6
    k,              \* loop index k (line 302)
    c_factor,       \* c_factor, in units of 1/(6 * (RAND_MAX + 1))
    i,              \* loop index i (line 320)
    r_vol,          \* r_vol, in units of 1/(6 * (RAND_MAX + 1))
    t_idx,          \* t_idx of the current iteration: <<>> when none, else <<t_idx>>
    spoints,        \* the array spoints: per slot, the values written to it, in
                    \* order, in units of 1/(RAND_MAX + 1)
    \* ---- sample_point_in_tetra on its own
    draws,          \* the three values of std::rand() in lines 141-143
    weights         \* <<a, s, t, u>> of line 163, in units of 1/(RAND_MAX + 1)

symVars  == <<n_list, raw, probed, max_nn, neighs>>
callVars == <<wall_str, n_wall_args, wall_args_arr, with_vertices, with_sampling,
              wall_ptr, con_walls, exc, retval, assigned, ncalls>>
tetVars  == <<n_samples, visited, tmp_vertices, f_vert, t_vert, c_vol, vol, k,
              c_factor, i, r_vol, t_idx, spoints>>
foldVars == <<draws, weights>>
vars == <<pc, nsites, idx, j, symVars, callVars, tetVars, foldVars>>

(***************************************************************************)
(* Bounds of the model.                                                    *)
(***************************************************************************)
MaxSites == 3
MaxEntries == 3
MaxWallArgs == 8
MaxCalls == 2
MaxCells == 2
MaxFaces == 2
MaxSamples == 2
RandRange == 2
FoldRange == 6

\* Values standing for "no value": a null pointer, an unwritten array slot.
Null == "NULL"
Unwritten == "unwritten"

Max(S) == CHOOSE x \in S : \A y \in S : y <= x
Elems(s) == {s[q] : q \in 1..Len(s)}
SeqsUpTo(S, n) == UNION {[1..m -> S] : m \in 0..n}

(***************************************************************************)
(* Neighbour ids.  A value >= 0 is a site id; the cell engine marks a      *)
(* face cut by the domain box or by a wall with a negative id.             *)
(***************************************************************************)
WallMarkers == {-1, -2, -3, -4, -5, -6, -99}
Sentinel == -10

\* The wall markers the model lets the engine report: the nearest to zero and
\* the farthest, one on each side of the sentinel.
MarkersDrawn == {-1, -99}

Sites == 0..(nsites - 1)

\* Line 344, first conjunct: only non-wall neighbours are checked.
IsSiteNoZero(b) == b > 0
IsSiteAny(b) == TRUE
IsSite(b) == b >= 0

\* Line 344, second conjunct: std::find(n_list[b].begin(), n_list[b].end(), a) == end.
Missing(l, b, a) == a \notin Elems(l[b])

\* Line 345: n_list[b].push_back(a).
PushBack(l, b, a) == [l EXCEPT ![b] = Append(@, a)]

\* What the cell engine can leave in n_list (line 254) for n sites: one list per
\* site, each entry a site id or a wall marker, at most budget entries in all.
RECURSIVE NeighbourLists(_, _, _)
NeighbourLists(n, ids, budget) ==
    IF n = 0 THEN {<<>>}
    ELSE UNION {{<<l>> \o rest : rest \in NeighbourLists(n - 1, ids, budget - Len(l))} :
                    l \in SeqsUpTo(ids, budget)}

InitSym ==
    /\ nsites \in 1..MaxSites
    /\ \E t \in NeighbourLists(nsites, 0..(nsites - 1) \cup MarkersDrawn, MaxEntries) :
          n_list = [a \in 0..(nsites - 1) |-> t[a + 1]]
    /\ raw = n_list
    /\ probed = {}
    /\ max_nn = Null
    /\ neighs = <<>>
    /\ pc = "symmetrize"
    /\ idx = 0
    /\ j = 0

\* Lines 342-346: one iteration of the inner loop.  The bound n_list[idx].size()
\* is read again at every iteration.
SymStep ==
    /\ pc = "symmetrize"
    /\ idx < nsites
    /\ j < Len(n_list[idx])
    /\ LET b == n_list[idx][j + 1] IN
         IF IsSite(b)
         THEN /\ probed' = probed \cup {b}
              /\ IF b \in DOMAIN n_list
                 THEN /\ n_list' = IF Missing(n_list, b, idx)
                                   THEN PushBack(n_list, b, idx)
                                   ELSE n_list
                      /\ pc' = pc
                 ELSE \* n_list[b] outside the vector: undefined behaviour
                      /\ n_list' = n_list
                      /\ pc' = "undefined"
         ELSE UNCHANGED <<probed, n_list, pc>>
    /\ j' = j + 1
    /\ UNCHANGED <<nsites, idx, raw, max_nn, neighs, callVars, tetVars, foldVars>>

\* Lines 341-342: the inner loop ends, the outer loop advances.
SymNextSite ==
    /\ pc = "symmetrize"
    /\ idx < nsites
    /\ j >= Len(n_list[idx])
    /\ idx' = idx + 1
    /\ j' = 0
    /\ UNCHANGED <<pc, nsites, symVars, callVars, tetVars, foldVars>>

\* Line 351: std::max_element(n_list.begin(), n_list.end(), size_cmp<int>)->size().
MaxSizeOf(l) == Max({Len(l[a]) : a \in DOMAIN l})

\* Lines 350-355: the outer loop is over; size the dense array and allocate it.
MaxNeighboursRaw ==
    /\ pc = "symmetrize"
    /\ idx = nsites
    /\ max_nn' = MaxSizeOf(raw)
    /\ neighs' = [q \in 0..(nsites * MaxSizeOf(raw) - 1) |-> Unwritten]
    /\ pc' = "pack"
    /\ idx' = 0
    /\ UNCHANGED <<nsites, j, n_list, raw, probed, callVars, tetVars, foldVars>>
MaxNeighbours ==
    /\ pc = "symmetrize"
    /\ idx = nsites
    /\ max_nn' = MaxSizeOf(n_list)
    /\ neighs' = [q \in 0..(nsites * MaxSizeOf(n_list) - 1) |-> Unwritten]
    /\ pc' = "pack"
    /\ idx' = 0
    /\ UNCHANGED <<nsites, j, n_list, raw, probed, callVars, tetVars, foldVars>>

\* Lines 358-361: std::copy of the list into row idx, std::fill of the rest of
\* the row with -10.
PackedRow(arr, l, a, width) ==
    [q \in DOMAIN arr |->
        IF q >= width * a /\ q < width * a + Len(l[a])
        THEN l[a][q - width * a + 1]
        ELSE IF q >= width * a + Len(l[a]) /\ q < width * (a + 1)
             THEN Sentinel
             ELSE arr[q]]

\* Lines 357-362: one iteration of the fill loop.
PackRow ==
    /\ pc = "pack"
    /\ idx < nsites
    /\ neighs' = PackedRow(neighs, n_list, idx, max_nn)
    /\ idx' = idx + 1
    /\ UNCHANGED <<pc, nsites, j, n_list, raw, probed, max_nn, callVars, tetVars, foldVars>>

PackDone ==
    /\ pc = "pack"
    /\ idx = nsites
    /\ pc' = "packed"
    /\ UNCHANGED <<nsites, idx, j, symVars, callVars, tetVars, foldVars>>

WallsIdle ==
    /\ wall_str = "" /\ n_wall_args = 0 /\ wall_args_arr = <<>>
    /\ with_vertices = 0
    /\ wall_ptr = <<>> /\ con_walls = <<>> /\ exc = Null /\ retval = "running"
    /\ assigned = {} /\ ncalls = 0

CallIdle == WallsIdle /\ with_sampling = 0

SymIdle ==
    /\ n_list = <<>> /\ raw = <<>> /\ probed = {} /\ max_nn = Null /\ neighs = <<>>

TetIdle ==
    /\ n_samples = 0 /\ visited = {} /\ tmp_vertices = <<>> /\ f_vert = <<>>
    /\ t_vert = <<>> /\ c_vol = <<>> /\ vol = 0 /\ k = 0 /\ c_factor = 0 /\ i = 0
    /\ r_vol = 0 /\ t_idx = <<>> /\ spoints = <<>>

FoldIdle ==
    /\ draws = <<>> /\ weights = <<>>

NextSym == SymStep \/ SymNextSite \/ MaxNeighbours \/ PackRow \/ PackDone

StartSym == InitSym /\ CallIdle /\ TetIdle /\ FoldIdle

SpecSym == StartSym /\ [][NextSym]_vars

(***************************************************************************)
(* C1: once the symmetrization pass (lines 341-348) is over, the neighbour *)
(* relation is symmetric: for all sites a and b, b is in n_list[a] if and  *)
(* only if a is in n_list[b], whatever the raw lists were.                 *)
(***************************************************************************)
C1_SymmetricAfterPass ==
    pc \in {"pack", "packed"} =>
        \A a, b \in Sites : (b \in Elems(n_list[a])) <=> (a \in Elems(n_list[b]))

\* A pass over raw lists that were asymmetric in both directions of the scan:
\* an entry was appended to a list already scanned and to one scanned later.
C1_Witness ==
    /\ pc = "pack"
    /\ \E a, b, c \in Sites :
          /\ a < b /\ b < c
          /\ c \in Elems(raw[b]) /\ b \notin Elems(raw[c]) /\ b \in Elems(n_list[c])
          /\ a \in Elems(raw[b]) /\ b \notin Elems(raw[a]) /\ b \in Elems(n_list[a])

(***************************************************************************)
(* C6: the symmetrization never adds a wall marker.  Every entry a list    *)
(* has beyond its raw length is a site id, the value used to index n_list  *)
(* is never negative, and the raw list is a prefix of the list at every    *)
(* point of the pass and after it.                                         *)
(***************************************************************************)
C6_OnlySiteIdsAppended ==
    /\ \A b \in probed : b >= 0
    /\ \A a \in Sites :
          /\ Len(raw[a]) <= Len(n_list[a])
          /\ SubSeq(n_list[a], 1, Len(raw[a])) = raw[a]
          /\ \A q \in (Len(raw[a]) + 1)..Len(n_list[a]) : n_list[a][q] \in Sites

\* The pass is over, it met a wall marker and it appended to some list.
C6_Witness ==
    /\ pc = "pack"
    /\ \E a \in Sites : Elems(raw[a]) \cap WallMarkers # {}
    /\ \E a \in Sites : Len(n_list[a]) > Len(raw[a])

(***************************************************************************)
(* C4: after packing, max_nn is the longest neighbour list as it is after  *)
(* symmetrization; row i of the dense array (stride max_nn) holds list i   *)
(* in order in its first Len slots and -10 in all the others; -10 is no    *)
(* site id and no wall marker, so a slot holds -10 exactly when it is      *)
(* padding.                                                                *)
(***************************************************************************)
C4_DensePacking ==
    pc = "packed" =>
        /\ max_nn = Max({Len(n_list[a]) : a \in Sites})
        /\ DOMAIN neighs = 0..(nsites * max_nn - 1)
        /\ \A a \in Sites : \A q \in 0..(max_nn - 1) :
              /\ q < Len(n_list[a]) => neighs[max_nn * a + q] = n_list[a][q + 1]
              /\ q >= Len(n_list[a]) => neighs[max_nn * a + q] = Sentinel
              /\ (neighs[max_nn * a + q] = Sentinel) <=> (q >= Len(n_list[a]))
        /\ Sentinel \notin (0..MaxSites) \cup WallMarkers

\* Packed rows of different lengths, the longest grown by the symmetrization,
\* a padded row holding a wall marker.
C4_Witness ==
    /\ pc = "packed"
    /\ max_nn > Max({Len(raw[a]) : a \in Sites})
    /\ \E a \in Sites :
          /\ Len(n_list[a]) < max_nn
          /\ Elems(n_list[a]) \cap WallMarkers # {}

(***************************************************************************)
(* The call: hyperion_voropp_wrap from entry to return.  The numerical     *)
(* work of lines 228-362 is one step here; what matters is where an        *)
(* exception can leave the try block and where the outputs are assigned.   *)
(***************************************************************************)
\* Tags the caller may pass.  Line 91 names 'cone' and 'plane' as allowed;
\* only 'sphere' and 'cylinder' are handled.
WallTags == {"sphere", "cylinder", "cone", ""}
Radii == {-1, 0, 1}

\* The parameter arrays of length n: the 4th and the 7th parameter, where
\* present, range over Radii; the others are 1.
WallArgs(n) ==
    {[q \in 1..n |-> IF q = 4 THEN r4 ELSE IF q = 7 THEN r7 ELSE 1] : r4, r7 \in Radii}

\* The output pointers of the call (line 19).
OutputPtrs == {"neighbours", "volumes", "bb_min", "bb_max", "vertices", "sample_points"}

\* Lines 94-99: the checks of a 'sphere' wall (wall_args_arr[3] is args[4]).
SphereArgsBadAtLeast(n, args) == n < 4 \/ args[4] <= 0
SphereArgsBad(n, args) == n # 4 \/ args[4] <= 0
\* Lines 105-110: the checks of a 'cylinder' wall (wall_args_arr[6] is args[7]).
CylinderArgsBad(n, args) == n # 7 \/ args[7] <= 0

\* Lines 100 and 111: new wall_sphere(...) / new wall_cylinder(...), the object
\* tagged with the call that constructed it.
NewWall(tag, n, args, call) == [type |-> tag, params |-> SubSeq(args, 1, n), by |-> call]

\* The arguments of a call.  Of nsites the call's control flow reads only
\* whether it is negative, zero or positive.
InputsCall ==
    /\ nsites \in -1..1
    /\ wall_str \in WallTags
    /\ n_wall_args \in 0..MaxWallArgs
    /\ wall_args_arr \in WallArgs(n_wall_args)
    /\ with_vertices \in {0, 1}
    /\ with_sampling \in {0, 1}

InitCall ==
    /\ InputsCall
    /\ wall_ptr = <<>>
    /\ con_walls = <<>>
    /\ exc = Null
    /\ retval = "running"
    /\ assigned = {}
    /\ ncalls = 1
    /\ pc = "call_prepare"
    /\ idx = 0
    /\ j = 0

\* Lines 178-222: the output quantities are prepared in locals owned by the call
\* (vectors and ptr_raii); std::vector's constructor throws for a negative nsites.
PrepareAssigning ==
    /\ pc = "call_prepare"
    /\ IF nsites < 0
       THEN /\ exc' = "length_error"
            /\ pc' = "call_catch"
            /\ UNCHANGED assigned
       ELSE /\ pc' = "call_walls"
            /\ assigned' = assigned \cup {"volumes", "bb_min", "bb_max"}
            /\ UNCHANGED exc
    /\ UNCHANGED <<nsites, idx, j, symVars, wall_str, n_wall_args, wall_args_arr,
                   with_vertices, with_sampling, wall_ptr, con_walls, retval, ncalls,
                   tetVars, foldVars>>
Prepare ==
    /\ pc = "call_prepare"
    /\ IF nsites < 0
       THEN /\ exc' = "length_error"
            /\ pc' = "call_catch"
       ELSE /\ pc' = "call_walls"
            /\ UNCHANGED exc
    /\ UNCHANGED <<nsites, idx, j, symVars, wall_str, n_wall_args, wall_args_arr,
                   with_vertices, with_sampling, wall_ptr, con_walls, retval,
                   assigned, ncalls,
                   tetVars, foldVars>>

\* Lines 76-116 called from line 225: add_walls.
AddWalls ==
    /\ pc = "call_walls"
    /\ IF \/ wall_str = "sphere" /\ SphereArgsBad(n_wall_args, wall_args_arr)
          \/ wall_str = "cylinder" /\ CylinderArgsBad(n_wall_args, wall_args_arr)
       THEN /\ exc' = "invalid_argument"
            /\ pc' = "call_catch"
            /\ UNCHANGED <<wall_ptr, con_walls>>
       ELSE /\ IF wall_str = "sphere"
               THEN /\ wall_ptr' = <<NewWall("sphere", 4, wall_args_arr, ncalls)>>
                    /\ con_walls' = Append(con_walls, wall_ptr'[1])
               ELSE IF wall_str = "cylinder"
               THEN /\ wall_ptr' = <<NewWall("cylinder", 7, wall_args_arr, ncalls)>>
                    /\ con_walls' = Append(con_walls, wall_ptr'[1])
               ELSE UNCHANGED <<wall_ptr, con_walls>>
            /\ pc' = "call_compute"
            /\ UNCHANGED exc
    /\ UNCHANGED <<nsites, idx, j, symVars, wall_str, n_wall_args, wall_args_arr,
                   with_vertices, with_sampling, retval, assigned, ncalls,
                   tetVars, foldVars>>

\* Lines 228-362: the cell loop, the symmetrization and the packing; line 351
\* assigns *max_nn.  With no site, std::max_element returns the end iterator of
\* an empty vector and line 351 dereferences it, which is undefined: the
\* process ends, or *max_nn gets whatever is read and the call goes on.
Compute ==
    /\ pc = "call_compute"
    /\ \/ /\ nsites > 0
          /\ pc' = "call_vertices"
          /\ assigned' = assigned \cup {"max_nn"}
       \/ /\ nsites = 0
          /\ pc' = "call_vertices"
          /\ assigned' = assigned \cup {"max_nn"}
       \/ /\ nsites = 0
          /\ pc' = "call_crash"
          /\ UNCHANGED assigned
    /\ UNCHANGED <<nsites, idx, j, symVars, wall_str, n_wall_args, wall_args_arr,
                   with_vertices, with_sampling, wall_ptr, con_walls, exc, retval, ncalls,
                   tetVars, foldVars>>

\* Lines 364-383: the dense vertex array, when asked for.  With no site, line
\* 366 dereferences the end iterator of the empty vertices_list as line 351 does.
Vertices ==
    /\ pc = "call_vertices"
    /\ \/ /\ assigned' = assigned \cup (IF with_vertices # 0 THEN {"max_nv", "vertices"}
                                                            ELSE {"max_nv"})
          /\ pc' = "call_assign"
       \/ /\ nsites = 0
          /\ with_vertices # 0
          /\ pc' = "call_crash"
          /\ UNCHANGED assigned
    /\ UNCHANGED <<nsites, idx, j, symVars, wall_str, n_wall_args, wall_args_arr,
                   with_vertices, with_sampling, wall_ptr, con_walls, exc, retval, ncalls,
                   tetVars, foldVars>>

\* Lines 385-392: the outputs are released to the caller, NULL is returned.
AssignOutputs ==
    /\ pc = "call_assign"
    /\ assigned' = assigned \cup {"volumes", "bb_min", "bb_max", "neighbours", "sample_points"}
    /\ retval' = Null
    /\ pc' = "call_returned"
    /\ UNCHANGED <<nsites, idx, j, symVars, wall_str, n_wall_args, wall_args_arr,
                   with_vertices, with_sampling, wall_ptr, con_walls, exc, ncalls,
                   tetVars, foldVars>>

\* Lines 394-397: the handler builds error_message and returns its c_str().
Catch ==
    /\ pc = "call_catch"
    /\ retval' = "error_message"
    /\ pc' = "call_returned"
    /\ UNCHANGED <<nsites, idx, j, symVars, wall_str, n_wall_args, wall_args_arr,
                   with_vertices, with_sampling, wall_ptr, con_walls, exc, assigned, ncalls,
                   tetVars, foldVars>>

\* The caller calls again: new arguments, new output pointers, a new container;
\* the static wall_ptr (line 73) keeps what the earlier call left in it.
CallAgain ==
    /\ pc = "call_returned"
    /\ ncalls < MaxCalls
    /\ nsites' \in -1..1
    /\ wall_str' \in WallTags
    /\ n_wall_args' \in 0..MaxWallArgs
    /\ wall_args_arr' \in WallArgs(n_wall_args')
    /\ with_vertices' \in {0, 1}
    /\ with_sampling' \in {0, 1}
    /\ con_walls' = <<>>
    /\ exc' = Null
    /\ retval' = "running"
    /\ assigned' = {}
    /\ ncalls' = ncalls + 1
    /\ pc' = "call_prepare"
    /\ UNCHANGED <<idx, j, symVars, wall_ptr, tetVars, foldVars>>

NextCall == Prepare \/ AddWalls \/ Compute \/ Vertices \/ AssignOutputs \/ Catch \/ CallAgain

StartCall == InitCall /\ SymIdle /\ TetIdle /\ FoldIdle

SpecCall == StartCall /\ [][NextCall]_vars

(***************************************************************************)
(* C2: a call that fails (an exception left the try block) returns the     *)
(* error message and has assigned none of the output pointers; an output   *)
(* pointer is assigned only in a call that raised nothing and returns NULL.*)
(***************************************************************************)
C2_NoOutputOnFailure ==
    /\ exc # Null =>
          /\ assigned \cap OutputPtrs = {}
          /\ pc = "call_returned" => retval = "error_message"
    /\ assigned \cap OutputPtrs # {} =>
          /\ exc = Null
          /\ pc \in {"call_assign", "call_returned"}
          /\ pc = "call_returned" => retval = Null

\* A call that failed in the wall validation has returned its message; the call
\* before it had succeeded.
C2_Witness ==
    /\ pc = "call_returned"
    /\ ncalls = 2
    /\ exc = "invalid_argument"
    /\ retval = "error_message"
    /\ wall_ptr # <<>>

(***************************************************************************)
(* C3: add_walls with tag 'sphere' throws invalid_argument whenever the    *)
(* parameter count is not 4 or the 4th parameter is <= 0, and installs a   *)
(* sphere wall otherwise; with tag 'cylinder' the same for 7 parameters    *)
(* and the 7th.  When it throws, the call has constructed no wall and      *)
(* added none to the container.                                            *)
(***************************************************************************)
WallsPassed ==
    \/ pc \in {"call_compute", "call_crash", "call_vertices", "call_assign"}
    \/ pc = "call_returned" /\ exc = Null

WallsFailed == exc = "invalid_argument"

C3_WallValidation ==
    /\ WallsFailed =>
          /\ \/ wall_str = "sphere" /\ (n_wall_args # 4 \/ wall_args_arr[4] <= 0)
             \/ wall_str = "cylinder" /\ (n_wall_args # 7 \/ wall_args_arr[7] <= 0)
          /\ con_walls = <<>>
          /\ wall_ptr # <<>> => wall_ptr[1].by # ncalls
    /\ WallsPassed /\ wall_str = "sphere" =>
          /\ n_wall_args = 4 /\ wall_args_arr[4] > 0
          /\ wall_ptr = <<[type |-> "sphere", params |-> wall_args_arr, by |-> ncalls]>>
          /\ con_walls = wall_ptr
    /\ WallsPassed /\ wall_str = "cylinder" =>
          /\ n_wall_args = 7 /\ wall_args_arr[7] > 0
          /\ wall_ptr = <<[type |-> "cylinder", params |-> wall_args_arr, by |-> ncalls]>>
          /\ con_walls = wall_ptr

\* A sphere wall with 5 parameters was refused by a call that follows one in
\* which a cylinder wall was installed.
C3_Witness ==
    /\ WallsFailed
    /\ wall_str = "sphere"
    /\ n_wall_args = 5
    /\ wall_ptr # <<>>
    /\ wall_ptr[1].type = "cylinder"

(***************************************************************************)
(* The cell loop (lines 246-336): for every site the engine's cell, its    *)
(* decomposition into tetrahedra anchored at vertex 0, and the sampling.   *)
(* Coordinates are integers; a volume is kept as six times its value and   *)
(* a random fraction std::rand()/(RAND_MAX + 1.0) as std::rand() itself,   *)
(* RandRange standing for RAND_MAX + 1.  The arithmetic is exact: the      *)
(* rounding of doubles is not modelled.  The volume, the neighbours and    *)
(* the bounding box of lines 254-274 are left out.                         *)
(***************************************************************************)
Last(sq) == sq[Len(sq)]

\* Vertex v of a flat list of coordinate triplets, coordinate c (0, 1, 2).
Coord(V, v, c) == V[3 * v + c + 1]

\* Lines 118-136: tetra_volume, times 6.
Abs(x) == IF x < 0 THEN -x ELSE x
TetraVolume6(V, v0, v1, v2, v3) ==
    LET a == Coord(V, v1, 0) - Coord(V, v0, 0)
        b == Coord(V, v1, 1) - Coord(V, v0, 1)
        c == Coord(V, v1, 2) - Coord(V, v0, 2)
        d == Coord(V, v2, 0) - Coord(V, v0, 0)
        e == Coord(V, v2, 1) - Coord(V, v0, 1)
        f == Coord(V, v2, 2) - Coord(V, v0, 2)
        g == Coord(V, v3, 0) - Coord(V, v0, 0)
        h == Coord(V, v3, 1) - Coord(V, v0, 1)
        ii == Coord(V, v3, 2) - Coord(V, v0, 2)
    IN  Abs(a * (e * ii - f * h) - b * (d * ii - f * g) + c * (d * h - e * g))

\* Lines 145-160: the folding of the three draws into the simplex, den standing
\* for 1.0.  The result is <<a, s, t, u>>.
FoldNoThird(s0, t0, u0, den) ==
    LET s1 == IF s0 + t0 > den THEN den - s0 ELSE s0
        t1 == IF s0 + t0 > den THEN den - t0 ELSE t0
        s2 == s1
        t2 == IF t1 + u0 > den THEN den - u0 ELSE t1
        u2 == IF t1 + u0 > den THEN den - s1 - t1 ELSE u0
    IN  <<den - s2 - t2 - u2, s2, t2, u2>>
Fold(s0, t0, u0, den) ==
    LET s1 == IF s0 + t0 > den THEN den - s0 ELSE s0
        t1 == IF s0 + t0 > den THEN den - t0 ELSE t0
        s2 == IF t1 + u0 > den THEN s1
              ELSE IF s1 + t1 + u0 > den THEN den - t1 - u0 ELSE s1
        t2 == IF t1 + u0 > den THEN den - u0 ELSE t1
        u2 == IF t1 + u0 > den THEN den - s1 - t1
              ELSE IF s1 + t1 + u0 > den THEN s1 + t1 + u0 - den ELSE u0
    IN  <<den - s2 - t2 - u2, s2, t2, u2>>

\* Lines 162-164: coordinate c of the sample, times den: the combination of
\* the vertices p0 .. p3 of V with the weights w.
SamplePoint(V, p0, p1, p2, p3, w, c) ==
    Coord(V, p0, c) * w[1] + Coord(V, p1, c) * w[2]
        + Coord(V, p2, c) * w[3] + Coord(V, p3, c) * w[4]

\* Line 322: std::upper_bound(c_vol.begin(), c_vol.end(), r_vol) as a distance
\* from begin(): the first position whose value is greater than r; Len(cv) is
\* end().  Both sides are brought to units of 1/(6 * RandRange).
LowerBound(cv, r) ==
    IF \E q \in 1..Len(cv) : RandRange * cv[q] >= r
    THEN (CHOOSE q \in 1..Len(cv) :
            /\ RandRange * cv[q] >= r
            /\ \A p \in 1..(q - 1) : ~(RandRange * cv[p] >= r)) - 1
    ELSE Len(cv)
UpperBound(cv, r) ==
    IF \E q \in 1..Len(cv) : RandRange * cv[q] > r
    THEN (CHOOSE q \in 1..Len(cv) :
            /\ RandRange * cv[q] > r
            /\ \A p \in 1..(q - 1) : ~(RandRange * cv[p] > r)) - 1
    ELSE Len(cv)

\* The cells the model lets the engine compute: the vertices of a pyramid with
\* a square base, vertex 0 a corner of the base, and a sixth point above vertex
\* 1; f_vert in the format of line 235, a face being its number of vertices
\* followed by their indices.
CellVertices == <<0,0,0,  2,0,0,  0,2,0,  2,2,0,  0,0,2,  2,0,2>>

\* Faces: the pyramid's five, a triangle in the base plane (its tetrahedron
\* is flat), a quadrilateral and a pentagon away from vertex 0, and a triangle
\* with vertex 0 last.
Faces == { <<4, 0,1,3,2>>, <<3, 0,1,4>>, <<3, 1,3,4>>, <<3, 3,2,4>>, <<3, 2,0,4>>,
           <<3, 1,2,3>>, <<4, 1,3,4,2>>, <<5, 1,3,2,4,5>>, <<3, 4,3,0>> }

RECURSIVE Flatten(_)
Flatten(fs) == IF fs = <<>> THEN <<>> ELSE Head(fs) \o Flatten(Tail(fs))

\* Every list of at most MaxFaces faces.
FaceLists == {Flatten(fs) : fs \in SeqsUpTo(Faces, MaxFaces)}

\* The face lists sampled from: the whole pyramid, the flat triangle alone, no
\* face away from vertex 0, the flat triangle before a solid one, a quadrilateral.
SampledFaceLists ==
    { <<4, 0,1,3,2,  3, 0,1,4,  3, 1,3,4,  3, 3,2,4,  3, 2,0,4>>,
      <<3, 1,2,3>>,
      <<3, 0,1,4>>,
      <<3, 1,2,3,  3, 1,3,4>>,
      <<4, 1,3,4,2>> }

\* What std::vector::back() of an empty vector may yield (line 319), short of
\* ending the process.
GarbageVolumes == {-8, 0, 8}

InitCells ==
    /\ nsites \in 1..MaxCells
    /\ visited = {}
    /\ tmp_vertices = <<>>
    /\ f_vert = <<>>
    /\ t_vert = <<>>
    /\ c_vol = <<>>
    /\ vol = 0
    /\ idx = 0 /\ j = 0 /\ k = 0 /\ i = 0
    /\ c_factor = 0
    /\ r_vol = 0
    /\ t_idx = <<>>
    /\ pc = "cell"

\* Line 215: spoints is allocated when sampling is asked for, NULL otherwise.
InitTetra ==
    /\ InitCells
    /\ with_sampling \in {0, 1}
    /\ n_samples \in 0..MaxSamples
    /\ spoints = IF with_sampling # 0
                 THEN [q \in 0..(nsites * n_samples * 3 - 1) |-> <<>>]
                 ELSE <<>>

InitDecomp ==
    /\ InitCells
    /\ with_sampling = 1
    /\ n_samples = 0
    /\ spoints = <<>>

\* Lines 249-285: the loop is at a site it has not been at; the engine computes
\* its cell; unless sampling is off, the tables are cleared and the faces read.
ComputeCellNoClear(lists) ==
    /\ pc = "cell"
    /\ \E site \in Sites \ visited :
          /\ idx' = site
          /\ visited' = visited \cup {site}
    /\ tmp_vertices' = CellVertices
    /\ IF with_sampling = 0
       THEN /\ pc' = "inc"
            /\ UNCHANGED <<f_vert, t_vert, c_vol, vol, j>>
       ELSE /\ t_vert' = t_vert
            /\ c_vol' = c_vol
            /\ vol' = vol
            /\ f_vert' \in lists
            /\ j' = 0
            /\ pc' = "faces"
    /\ UNCHANGED <<nsites, symVars, callVars, foldVars,
                   n_samples, k, c_factor, i, r_vol, t_idx, spoints>>
ComputeCell(lists) ==
    /\ pc = "cell"
    /\ \E site \in Sites \ visited :
          /\ idx' = site
          /\ visited' = visited \cup {site}
    /\ tmp_vertices' = CellVertices
    /\ IF with_sampling = 0
       THEN /\ pc' = "inc"
            /\ UNCHANGED <<f_vert, t_vert, c_vol, vol, j>>
       ELSE /\ t_vert' = <<>>
            /\ c_vol' = <<>>
            /\ vol' = 0
            /\ f_vert' \in lists
            /\ j' = 0
            /\ pc' = "faces"
    /\ UNCHANGED <<nsites, symVars, callVars, foldVars,
                   n_samples, k, c_factor, i, r_vol, t_idx, spoints>>

\* Line 292: std::find of 0 among the nfv vertex indices of the face at j.
HasVertexZeroButFirst(fv, at) == \E q \in (at + 3)..(at + 1 + fv[at + 1]) : fv[q] = 0
HasVertexZero(fv, at) == \E q \in (at + 2)..(at + 1 + fv[at + 1]) : fv[q] = 0

\* Lines 286-296: a face with vertex 0 is skipped.
FaceSkip ==
    /\ pc = "faces"
    /\ j < Len(f_vert)
    /\ HasVertexZero(f_vert, j)
    /\ j' = j + f_vert[j + 1] + 1
    /\ UNCHANGED <<pc, nsites, idx, symVars, callVars, foldVars, n_samples, visited,
                   tmp_vertices, f_vert, t_vert, c_vol, vol, k, c_factor, i, r_vol,
                   t_idx, spoints>>

\* Lines 286-302: a face without vertex 0 enters the loop over its fan.
FaceEnter ==
    /\ pc = "faces"
    /\ j < Len(f_vert)
    /\ ~HasVertexZero(f_vert, j)
    /\ k' = j + 2
    /\ pc' = "fan"
    /\ UNCHANGED <<nsites, idx, j, symVars, callVars, foldVars, n_samples, visited,
                   tmp_vertices, f_vert, t_vert, c_vol, vol, c_factor, i, r_vol,
                   t_idx, spoints>>

\* Lines 303-306: the four indices pushed for the tetrahedron at k.
TetraAt(fv, at, kk) == <<0, fv[at + 2], fv[kk + 1], fv[kk + 2]>>

\* Lines 302-313: one iteration of the loop over the fan.
FanStep ==
    /\ pc = "fan"
    /\ k < j + f_vert[j + 1]
    /\ LET tet == TetraAt(f_vert, j, k)
           t_vol == TetraVolume6(tmp_vertices, 0, tet[2], tet[3], tet[4])
       IN  /\ t_vert' = t_vert \o tet
           /\ vol' = vol + t_vol
           /\ c_vol' = Append(c_vol, vol + t_vol)
    /\ k' = k + 1
    /\ UNCHANGED <<pc, nsites, idx, j, symVars, callVars, foldVars, n_samples, visited,
                   tmp_vertices, f_vert, c_factor, i, r_vol, t_idx, spoints>>

\* Lines 302 and 315: the fan is done, the counter moves to the next face.
FanDone ==
    /\ pc = "fan"
    /\ k >= j + f_vert[j + 1]
    /\ j' = j + f_vert[j + 1] + 1
    /\ pc' = "faces"
    /\ UNCHANGED <<nsites, idx, symVars, callVars, foldVars, n_samples, visited,
                   tmp_vertices, f_vert, t_vert, c_vol, vol, k, c_factor, i, r_vol,
                   t_idx, spoints>>

\* Lines 286 and 319-320: the faces are done; c_factor is c_vol.back() over
\* RAND_MAX + 1.  back() of an empty vector is undefined: the process ends, or
\* c_factor is whatever lies before the vector's storage.
FacesDone ==
    /\ pc = "faces"
    /\ j >= Len(f_vert)
    /\ \/ /\ c_vol # <<>>
          /\ c_factor' = Last(c_vol)
          /\ pc' = "sample"
       \/ /\ c_vol = <<>>
          /\ c_factor' \in GarbageVolumes
          /\ pc' = "sample"
       \/ /\ c_vol = <<>>
          /\ c_factor' = c_factor
          /\ pc' = "crash"
    /\ i' = 0
    /\ t_idx' = <<>>
    /\ UNCHANGED <<nsites, idx, j, symVars, callVars, foldVars, n_samples, visited,
                   tmp_vertices, f_vert, t_vert, c_vol, vol, k, r_vol, spoints>>

\* Lines 331-332: the three coordinates of a point of tetrahedron t written at
\* spoints.get() + idx*n_samples*3 + i*3.
WritePoint(arr, site, n, w) ==
    LET base == site * n_samples * 3 + n * 3
        tet == SubSeq(t_vert, 4 * t_idx'[1] + 1, 4 * t_idx'[1] + 4)
    IN  [q \in DOMAIN arr |->
            IF q >= base /\ q < base + 3
            THEN Append(arr[q], SamplePoint(tmp_vertices, tet[1], tet[2], tet[3], tet[4],
                                            w, q - base))
            ELSE arr[q]]

\* Lines 320-333: one iteration of the sampling loop: a draw, the search, and
\* either the repeat of line 326 or a point written and the count advanced.
SampleDrawLower ==
    /\ pc = "sample"
    /\ i < n_samples
    /\ \E rnd \in 0..(RandRange - 1) :
          /\ r_vol' = rnd * c_factor
          /\ \/ /\ LowerBound(c_vol, r_vol') = Len(c_vol)
                /\ t_idx' = <<>>
                /\ UNCHANGED <<i, spoints>>
             \/ /\ LowerBound(c_vol, r_vol') # Len(c_vol)
                /\ t_idx' = <<LowerBound(c_vol, r_vol')>>
                /\ \E s0, t0, u0 \in 0..(RandRange - 1) :
                      spoints' = WritePoint(spoints, idx, i, Fold(s0, t0, u0, RandRange))
                /\ i' = i + 1
    /\ UNCHANGED <<pc, nsites, idx, j, symVars, callVars, foldVars, n_samples, visited,
                   tmp_vertices, f_vert, t_vert, c_vol, vol, k, c_factor>>
SampleDraw ==
    /\ pc = "sample"
    /\ i < n_samples
    /\ \E rnd \in 0..(RandRange - 1) :
          /\ r_vol' = rnd * c_factor
          /\ \/ /\ UpperBound(c_vol, r_vol') = Len(c_vol)
                /\ t_idx' = <<>>
                /\ UNCHANGED <<i, spoints>>
             \/ /\ UpperBound(c_vol, r_vol') # Len(c_vol)
                /\ t_idx' = <<UpperBound(c_vol, r_vol')>>
                /\ \E s0, t0, u0 \in 0..(RandRange - 1) :
                      spoints' = WritePoint(spoints, idx, i, Fold(s0, t0, u0, RandRange))
                /\ i' = i + 1
    /\ UNCHANGED <<pc, nsites, idx, j, symVars, callVars, foldVars, n_samples, visited,
                   tmp_vertices, f_vert, t_vert, c_vol, vol, k, c_factor>>

\* Line 320: the count is reached.
SampleDone ==
    /\ pc = "sample"
    /\ i >= n_samples
    /\ pc' = "inc"
    /\ UNCHANGED <<nsites, idx, j, symVars, callVars, foldVars, tetVars>>

\* Line 335: vl.inc() moves to the next site, or ends the loop.
Inc ==
    /\ pc = "inc"
    /\ pc' = IF visited = Sites THEN "cells_done" ELSE "cell"
    /\ UNCHANGED <<nsites, idx, j, symVars, callVars, foldVars, tetVars>>

NextTetra ==
    \/ ComputeCell(SampledFaceLists)
    \/ FaceSkip \/ FaceEnter \/ FanStep \/ FanDone \/ FacesDone
    \/ SampleDraw \/ SampleDone \/ Inc

NextDecomp ==
    \/ ComputeCell(FaceLists)
    \/ FaceSkip \/ FaceEnter \/ FanStep \/ FanDone \/ FacesDone
    \/ SampleDone \/ Inc

StartTetra == InitTetra /\ SymIdle /\ WallsIdle /\ FoldIdle

SpecTetra == StartTetra /\ [][NextTetra]_vars

StartDecomp == InitDecomp /\ SymIdle /\ WallsIdle /\ FoldIdle

SpecDecomp == StartDecomp /\ [][NextDecomp]_vars

(***************************************************************************)
(* sample_point_in_tetra on its own: three draws, folded.                  *)
(***************************************************************************)
InitFold ==
    /\ draws \in [1..3 -> 0..(FoldRange - 1)]
    /\ weights = <<>>
    /\ pc = "fold"
    /\ nsites = 0 /\ idx = 0 /\ j = 0

\* Lines 141-160.
SamplePointInTetra ==
    /\ pc = "fold"
    /\ weights' = Fold(draws[1], draws[2], draws[3], FoldRange)
    /\ pc' = "folded"
    /\ UNCHANGED <<nsites, idx, j, symVars, callVars, tetVars, draws>>

NextFold == SamplePointInTetra

StartFold == InitFold /\ SymIdle /\ CallIdle /\ TetIdle

SpecFold == StartFold /\ [][NextFold]_vars

(***************************************************************************)
(* The face list as the format of line 235 defines it: each face is its    *)
(* number of vertices followed by that many vertex indices.                *)
(***************************************************************************)
RECURSIVE FacesOf(_)
FacesOf(fv) ==
    IF fv = <<>> THEN <<>>
    ELSE <<SubSeq(fv, 2, fv[1] + 1)>> \o FacesOf(SubSeq(fv, fv[1] + 2, Len(fv)))

\* The fan of a face (v1, ..., vn) from vertex 0: (0, v1, vm, vm+1) for m = 2 .. n-1.
RECURSIVE FanFrom(_, _)
FanFrom(face, m) ==
    IF m >= Len(face) THEN <<>>
    ELSE <<0, face[1], face[m], face[m + 1]>> \o FanFrom(face, m + 1)

RECURSIVE TetrasOf(_)
TetrasOf(faces) ==
    IF faces = <<>> THEN <<>>
    ELSE (IF 0 \in Elems(Head(faces)) THEN <<>> ELSE FanFrom(Head(faces), 2))
             \o TetrasOf(Tail(faces))

IsPrefix(a, b) == Len(a) <= Len(b) /\ SubSeq(b, 1, Len(a)) = a

\* Six times the volume of the tetrahedron number m (from 0) of t_vert.
VolumeOfTetra(m) ==
    TetraVolume6(tmp_vertices, t_vert[4 * m + 1], t_vert[4 * m + 2],
                 t_vert[4 * m + 3], t_vert[4 * m + 4])

RECURSIVE SumOfVolumes(_)
SumOfVolumes(n) == IF n = 0 THEN 0 ELSE SumOfVolumes(n - 1) + VolumeOfTetra(n - 1)

(***************************************************************************)
(* C8: when the walk over the faces of a cell is over, the cursor is at    *)
(* the end of the list, and t_vert is, face by face in order, nothing for  *)
(* a face with vertex 0 and for any other face of n vertices its n - 2     *)
(* tetrahedra (0, face[0], face[m], face[m+1]), m = 1 .. n-2; at every     *)
(* point every tetrahedron in t_vert has 0 as its first index.             *)
(***************************************************************************)
C8_FanDecomposition ==
    /\ pc \in {"sample", "crash"} =>
          /\ j = Len(f_vert)
          /\ t_vert = TetrasOf(FacesOf(f_vert))
    /\ \A q \in 1..Len(t_vert) : q % 4 = 1 => t_vert[q] = 0

\* A face with vertex 0 was skipped and a pentagon gave three tetrahedra.
C8_Witness ==
    /\ pc = "sample"
    /\ f_vert = <<3, 2,0,4,  5, 1,3,2,4,5>>
    /\ t_vert = <<0,1,3,2,  0,1,2,4,  0,1,4,5>>

(***************************************************************************)
(* C9: at every point, c_vol has one entry per tetrahedron of t_vert, is   *)
(* non-decreasing, and entry q is the sum of the volumes of the first q    *)
(* tetrahedra; the tetrahedra are those of the current cell only: while a  *)
(* cell is decomposed and sampled, t_vert is a prefix of the decomposition *)
(* of that cell's faces.                                                   *)
(***************************************************************************)
C9_CumulativeVolumes ==
    /\ Len(t_vert) = 4 * Len(c_vol)
    /\ \A q \in 1..(Len(c_vol) - 1) : c_vol[q] <= c_vol[q + 1]
    /\ \A q \in 1..Len(c_vol) : c_vol[q] = SumOfVolumes(q)
    /\ vol = SumOfVolumes(Len(c_vol))
    /\ pc \in {"faces", "fan", "sample"} => IsPrefix(t_vert, TetrasOf(FacesOf(f_vert)))

\* The second cell of a call is being decomposed, a tetrahedron emitted for it,
\* the first cell having had more.
C9_Witness ==
    /\ pc = "fan"
    /\ Cardinality(visited) = 2
    /\ Len(c_vol) = 1
    /\ Last(c_vol) > 0
    /\ Len(f_vert) > 4

(***************************************************************************)
(* C10: a tetrahedron selected for a draw is the first whose cumulative    *)
(* volume is greater than r_vol; it is one of the cell's tetrahedra and    *)
(* its volume is not zero.  A draw that selects none writes nothing and    *)
(* does not advance the count: while a site is sampled its first i points  *)
(* are written, once each, and nothing else of its slice; a site the loop  *)
(* is through with has its n_samples points written, once each; a site     *)
(* not yet reached has nothing written.                                    *)
(***************************************************************************)
PointWrites(site, n) == {Len(spoints[site * n_samples * 3 + n * 3 + c]) : c \in 0..2}

C10_ProportionalSelection ==
    /\ pc = "sample" /\ t_idx # <<>> =>
          /\ t_idx[1] \in 0..(Len(c_vol) - 1)
          /\ RandRange * c_vol[t_idx[1] + 1] > r_vol
          /\ \A q \in 1..t_idx[1] : RandRange * c_vol[q] <= r_vol
          /\ VolumeOfTetra(t_idx[1]) > 0
    /\ with_sampling # 0 =>
          \A site \in Sites : \A n \in 0..(n_samples - 1) :
              PointWrites(site, n) =
                  IF site \notin visited THEN {0}
                  ELSE IF site = idx /\ pc \in {"faces", "fan", "sample", "crash"}
                       THEN (IF pc = "sample" /\ n < i THEN {1} ELSE {0})
                       ELSE {1}

\* The second site of a call has its two points written; a tetrahedron of
\* volume zero lay before the one selected last.
C10_Witness ==
    /\ pc = "sample"
    /\ Cardinality(visited) = 2
    /\ n_samples = 2
    /\ i = 2
    /\ t_idx = <<1>>
    /\ VolumeOfTetra(0) = 0

(***************************************************************************)
(* C5: the sampling loop runs only over a decomposition of positive        *)
(* volume: a cell whose cumulative volume is not positive, or that has no  *)
(* tetrahedron, has surfaced as an error before the first draw, so that    *)
(* every draw can select a tetrahedron and the loop finishes.              *)
(***************************************************************************)
C5_DegenerateVolumeIsFatal ==
    pc = "sample" /\ i < n_samples =>
        /\ c_vol # <<>>
        /\ Last(c_vol) > 0
        /\ \E rnd \in 0..(RandRange - 1) : UpperBound(c_vol, rnd * c_factor) # Len(c_vol)

(***************************************************************************)
(* C7: for every three draws in [0, 1), the four weights 1-s-t-u, s, t, u  *)
(* after the folding each lie in [0, 1] and sum to 1.                      *)
(***************************************************************************)
C7_WeightsInSimplex ==
    weights # <<>> =>
        /\ \A q \in 1..4 : weights[q] >= 0 /\ weights[q] <= FoldRange
        /\ weights[1] + weights[2] + weights[3] + weights[4] = FoldRange

\* Draws with s + t > 1 and s + t + u > 1 after the first fold, folded.
C7_Witness ==
    /\ pc = "folded"
    /\ draws[1] + draws[2] > FoldRange
    /\ (FoldRange - draws[1]) + (FoldRange - draws[2]) + draws[3] > FoldRange
    /\ weights[1] > 0

====
